---- MODULE Spec2Model ----
(***************************************************************************)
(* GlobalProtect-openconnect: the gateway login (crates/gpapi/src/gateway/ *)
(* login.rs), the positional token decoding and percent-encoding, the MFA  *)
(* challenge parser, and the PKCS#11 PIN redaction of the native engine's  *)
(* log lines (crates/openconnect/src/ffi/mod.rs).                          *)
(*                                                                         *)
(* A Rust &str is modelled as its sequence of bytes (integers 0..255).     *)
(* Str(<<"a","b">>) writes such a sequence readably.                       *)
(***************************************************************************)
EXTENDS Integers, Sequences, FiniteSets, TLC

VARIABLES
  \* build_gateway_token: its inputs and its result
  args,        \* texts of the <argument> elements, in document order
  computer,    \* gp_params.computer()
  removed,     \* index of the element deleted from the response, or -1
  built,       \* whether build_gateway_token has returned
  result,      \* its Result<String>: [ok, val]
  \* redact_pkcs11_pin: its argument and what it returned
  message,
  redactDone,
  redactOut,
  \* gateway_login
  lpc,         \* "idle", "sent" (the POST is in flight), "received", "done"
               \* (returned, the result not yet taken)
  lgateway,    \* the gateway argument
  lcred,       \* cred.to_params()
  lparams,     \* gp_params.to_params()
  lcomputer,   \* gp_params.computer()
  request,     \* the POST in flight
  response,    \* the response received
  outcome,     \* what the call returned
  calls,       \* calls of gateway_login so far
  posts,       \* POSTs to the login endpoint so far
  sent,        \* POSTs of the current call
  \* retrieve_config
  ppc,         \* "idle", "sent", "received", "done"
  pserver,     \* the portal called: the HIP policy server of the tests or another
  pcred,       \* the AuthCookie credential of the call
  prequest,    \* the POST to getconfig in flight
  presponse,   \* the response received
  poutcome,    \* what the call returned
  pprev,       \* what the call before this one returned
  pcalls,      \* calls of retrieve_config so far
  pposts,      \* POSTs to the getconfig endpoint so far
  psent,       \* POSTs of the current call
  \* resolve_csd_wrapper
  override_path, \* Option<&str>: [some, val]
  locations,   \* the default locations, in order
  fs,          \* what each path is: "missing", "dir", "file" or "exec"
  resolved,    \* the Option<String> returned
  wdone,       \* whether resolve_csd_wrapper has returned
  \* vpn_log
  log_level,   \* level: i32
  log_raw,     \* the bytes of the C string message
  log_sink,    \* what the log macros were given: [level, text], in order
  log_done     \* whether vpn_log has returned

tokVars == <<args, computer, removed, built, result>>
redVars == <<message, redactDone, redactOut>>
loginVars ==
  <<lpc, lgateway, lcred, lparams, lcomputer, request, response, outcome,
    calls, posts, sent>>
portalVars ==
  <<ppc, pserver, pcred, prequest, presponse, poutcome, pprev, pcalls, pposts,
    psent>>
wrapVars == <<override_path, locations, fs, resolved, wdone>>
logVars == <<log_level, log_raw, log_sink, log_done>>
vars == <<tokVars, redVars, loginVars, portalVars, wrapVars, logVars>>

\* The parts of the state a specification does not use stay as they are here.
IdleToken ==
  /\ args = <<>>
  /\ computer = <<>>
  /\ removed = -1
  /\ built = FALSE
  /\ result = [ok |-> FALSE, val |-> <<>>]

IdleRedact ==
  /\ message = <<>>
  /\ redactDone = FALSE
  /\ redactOut = <<>>

NoUrl == [scheme |-> "", host |-> "", path |-> ""]
NoRequest == [live |-> FALSE, url |-> NoUrl, form |-> <<>>]
NoResponse == [status |-> 0, hip |-> FALSE, body |-> <<>>]
NoOutcome == [kind |-> "none", a |-> <<>>, b |-> <<>>, err |-> ""]

IdleLogin ==
  /\ lpc = "idle"
  /\ lgateway = [scheme |-> "", host |-> ""]
  /\ lcred = <<>>
  /\ lparams = <<>>
  /\ lcomputer = <<>>
  /\ request = NoRequest
  /\ response = NoResponse
  /\ outcome = NoOutcome
  /\ calls = 0
  /\ posts = 0
  /\ sent = 0

NoCredential == [user |-> "", cookie |-> "", prelogon |-> ""]
NoBody == [root |-> "", text |-> "", fields |-> {}]
NoConfigRequest == [live |-> FALSE, path |-> "", form |-> <<>>]
NoConfigResponse == [status |-> 0, hip |-> FALSE, body |-> NoBody]
NoConfigOutcome ==
  [kind |-> "none", err |-> "", username |-> "", user_auth_cookie |-> "",
   prelogon_user_auth_cookie |-> ""]

IdlePortal ==
  /\ ppc = "idle"
  /\ pserver = ""
  /\ pcred = NoCredential
  /\ prequest = NoConfigRequest
  /\ presponse = NoConfigResponse
  /\ poutcome = NoConfigOutcome
  /\ pprev = NoConfigOutcome
  /\ pcalls = 0
  /\ pposts = 0
  /\ psent = 0

NoPath == [some |-> FALSE, val |-> ""]
SomePath(p) == [some |-> TRUE, val |-> p]

IdleWrapper ==
  /\ override_path = NoPath
  /\ locations = <<>>
  /\ fs = <<>>
  /\ resolved = NoPath
  /\ wdone = FALSE

IdleLog ==
  /\ log_level = 0
  /\ log_raw = <<>>
  /\ log_sink = <<>>
  /\ log_done = FALSE

----------------------------------------------------------------------------
(* Bytes and strings *)

\* The printable ASCII characters, byte 32 (space) to byte 126 (~); byte 96,
\* which a TLA+ string cannot hold, is written "grave".
Ascii ==
  << " ", "!", "\"", "#", "$", "%", "&", "'", "(", ")", "*", "+", ",", "-",
     ".", "/", "0", "1", "2", "3", "4", "5", "6", "7", "8", "9", ":", ";",
     "<", "=", ">", "?", "@", "A", "B", "C", "D", "E", "F", "G", "H", "I",
     "J", "K", "L", "M", "N", "O", "P", "Q", "R", "S", "T", "U", "V", "W",
     "X", "Y", "Z", "[", "\\", "]", "^", "_", "grave", "a", "b", "c", "d", "e",
     "f", "g", "h", "i", "j", "k", "l", "m", "n", "o", "p", "q", "r", "s",
     "t", "u", "v", "w", "x", "y", "z", "{", "|", "}", "~" >>

Ord(c) == CHOOSE b \in 32..126 : Ascii[b - 31] = c

Str(s) == [i \in 1..Len(s) |-> Ord(s[i])]

RECURSIVE Flatten(_)
Flatten(ss) == IF ss = <<>> THEN <<>> ELSE Head(ss) \o Flatten(Tail(ss))

\* pieces.join(sep)
RECURSIVE Join(_, _)
Join(pieces, sep) ==
  IF pieces = <<>> THEN <<>>
  ELSE IF Len(pieces) = 1 THEN pieces[1]
  ELSE pieces[1] \o sep \o Join(Tail(pieces), sep)

\* s[from..] starts with pat (from is a 1-based position)
StartsAt(s, from, pat) ==
  /\ from + Len(pat) - 1 <= Len(s)
  /\ \A j \in 1..Len(pat) : s[from + j - 1] = pat[j]

\* str::contains
Contains(s, pat) == \E i \in 1..(Len(s) + 1) : StartsAt(s, i, pat)

PERCENT == Ord("%")
B_0 == Ord("0")
B_9 == Ord("9")
B_A == Ord("A")
B_Z == Ord("Z")
B_F == Ord("F")
B_a == Ord("a")
B_z == Ord("z")
B_f == Ord("f")
B_dash == Ord("-")
B_under == Ord("_")
B_dot == Ord(".")
B_tilde == Ord("~")
EQUALS == Str(<<"=">>)
AMP == Str(<<"&">>)
FAILED_TO_READ == Str(<<"F","a","i","l","e","d"," ","t","o"," ","r","e","a","d"," ">>)
FROM_ARGS == Str(<<" ","f","r","o","m"," ","a","r","g","s">>)


----------------------------------------------------------------------------
(* urlencoding::encode and urlencoding::decode, as login.rs uses them *)

IsAlnum(b) ==
  \/ b \in B_0..B_9
  \/ b \in B_A..B_Z
  \/ b \in B_a..B_z

IsUnreserved(b) == IsAlnum(b) \/ b \in {B_dash, B_under, B_dot, B_tilde}

to_hex_digit(n) == IF n < 10 THEN B_0 + n ELSE B_A + (n - 10)

encode_byte(b) ==
  IF IsUnreserved(b) THEN <<b>>
  ELSE <<PERCENT, to_hex_digit(b \div 16), to_hex_digit(b % 16)>>

encode(s) == Flatten([i \in 1..Len(s) |-> encode_byte(s[i])])

\* -1 stands for None
from_hex_digit(b) ==
  IF b \in B_0..B_9 THEN b - B_0
  ELSE IF b \in B_A..B_F THEN b - B_A + 10
  ELSE IF b \in B_a..B_f THEN b - B_a + 10
  ELSE -1

\* decode_binary: one left-to-right pass; a '%' that is not followed by two
\* hex digits is copied as it is.
RECURSIVE decode_from(_, _)
decode_from(data, i) ==
  IF i > Len(data) THEN <<>>
  ELSE IF data[i] # PERCENT THEN <<data[i]>> \o decode_from(data, i + 1)
  ELSE IF Len(data) - i < 2 THEN SubSeq(data, i, Len(data))
  ELSE LET first == from_hex_digit(data[i + 1])
           second == from_hex_digit(data[i + 2])
       IN IF first = -1 THEN <<PERCENT>> \o decode_from(data, i + 1)
          ELSE IF second = -1
                 THEN <<PERCENT, data[i + 1]>> \o decode_from(data, i + 2)
          ELSE <<first * 16 + second>> \o decode_from(data, i + 3)

decode_binary(data) == decode_from(data, 1)

IsCont(b) == b \in 128..191

\* String::from_utf8's validity check
RECURSIVE utf8_valid(_, _)
utf8_valid(b, i) ==
  IF i > Len(b) THEN TRUE
  ELSE LET x == b[i]
           n == Len(b) - i
       IN IF x < 128 THEN utf8_valid(b, i + 1)
          ELSE IF x \in 194..223
            THEN n >= 1 /\ IsCont(b[i + 1]) /\ utf8_valid(b, i + 2)
          ELSE IF x \in 224..239
            THEN /\ n >= 2
                 /\ IF x = 224 THEN b[i + 1] \in 160..191
                    ELSE IF x = 237 THEN b[i + 1] \in 128..159
                    ELSE IsCont(b[i + 1])
                 /\ IsCont(b[i + 2])
                 /\ utf8_valid(b, i + 3)
          ELSE IF x \in 240..244
            THEN /\ n >= 3
                 /\ IF x = 240 THEN b[i + 1] \in 144..191
                    ELSE IF x = 244 THEN b[i + 1] \in 128..143
                    ELSE IsCont(b[i + 1])
                 /\ IsCont(b[i + 2])
                 /\ IsCont(b[i + 3])
                 /\ utf8_valid(b, i + 4)
          ELSE FALSE

\* decode: Result<Cow<str>, FromUtf8Error> as [ok, val]
decode(s) ==
  LET b == decode_binary(s)
  IN IF utf8_valid(b, 1) THEN [ok |-> TRUE, val |-> b]
     ELSE [ok |-> FALSE, val |-> <<>>]

----------------------------------------------------------------------------
(* The token: login.rs, build_gateway_token and its helpers *)

K_authcookie == Str(<<"a","u","t","h","c","o","o","k","i","e">>)
K_portal == Str(<<"p","o","r","t","a","l">>)
K_user == Str(<<"u","s","e","r">>)
K_domain == Str(<<"d","o","m","a","i","n">>)
K_preferred_ip == Str(<<"p","r","e","f","e","r","r","e","d","-","i","p">>)
K_computer == Str(<<"c","o","m","p","u","t","e","r">>)
K_persistent_cookie ==
  Str(<<"p","e","r","s","i","s","t","e","n","t","-","c","o","o","k","i","e">>)
K_portal_userauthcookie == K_portal \o Str(<<"-">>) \o K_user \o K_authcookie
K_portal_prelogonuserauthcookie ==
  K_portal \o Str(<<"-","p","r","e","l","o","g","o","n">>) \o K_user \o K_authcookie

S_null == Str(<<"(","n","u","l","l",")">>)
S_minus1 == Str(<<"-","1">>)
S_empty == Str(<<"e","m","p","t","y">>)

Ok(v) == [ok |-> TRUE, val |-> v]
Err(m) == [ok |-> FALSE, val |-> m]
Some(v) == [some |-> TRUE, val |-> v]
None == [some |-> FALSE, val |-> <<>>]

\* args.get(index), index counted from 0 as in the source
Get(a, index) == IF index < Len(a) THEN Some(a[index + 1]) ELSE None

\* as read_args, a missing slot read as the empty text
read_args_or_default(a, index, key) ==
  IF Get(a, index).some THEN Ok(<<key, Get(a, index).val>>) ELSE Ok(<<key, <<>>>>)

read_args(a, index, key) ==
  IF Get(a, index).some
    THEN Ok(<<key, Get(a, index).val>>)
    ELSE Err(FAILED_TO_READ \o key \o FROM_ARGS)

\* as read_optional_arg, "-1" not taken as a sentinel
read_optional_arg_keeps_minus1(a, index) ==
  IF ~Get(a, index).some THEN None
  ELSE LET value == Get(a, index).val
       IN IF value = <<>> \/ value = S_null \/ value = S_empty
            THEN None
            ELSE Some(value)

read_optional_arg(a, index) ==
  IF ~Get(a, index).some THEN None
  ELSE LET value == Get(a, index).val
       IN IF value = <<>> \/ value = S_null \/ value = S_minus1 \/ value = S_empty
            THEN None
            ELSE Some(value)

\* as normalize_token_value, decoding a second time what the first pass left
normalize_token_value_twice(value) ==
  IF Contains(value, <<PERCENT>>)
    THEN IF decode(value).ok
           THEN (IF decode(decode(value).val).ok
                   THEN decode(decode(value).val).val
                   ELSE decode(value).val)
           ELSE value
    ELSE value

normalize_token_value(value) ==
  IF Contains(value, <<PERCENT>>)
    THEN IF decode(value).ok THEN decode(value).val ELSE value
    ELSE value

\* the (key, value) pairs pushed when an optional slot is Some
OptionalParam(a, index, key) ==
  IF read_optional_arg(a, index).some
    THEN << <<key, read_optional_arg(a, index).val>> >>
    ELSE <<>>

\* format!("{}={}", k, encode(normalize_token_value(v)))
FormatParam(p) == p[1] \o EQUALS \o encode(normalize_token_value(p[2]))

\* as build_gateway_token, user pushed before portal
build_gateway_token_user_first(a, comp) ==
  LET r1 == read_args(a, 1, K_authcookie)
      r3 == read_args(a, 3, K_portal)
      r4 == read_args(a, 4, K_user)
      r7 == read_args(a, 7, K_domain)
      r15 == read_args(a, 15, K_preferred_ip)
  IN IF ~r1.ok THEN r1
     ELSE IF ~r3.ok THEN r3
     ELSE IF ~r4.ok THEN r4
     ELSE IF ~r7.ok THEN r7
     ELSE IF ~r15.ok THEN r15
     ELSE LET params ==
                << r1.val, r4.val, r3.val, r7.val, r15.val, <<K_computer, comp>> >>
                \o OptionalParam(a, 2, K_persistent_cookie)
                \o OptionalParam(a, 16, K_portal_userauthcookie)
                \o OptionalParam(a, 17, K_portal_prelogonuserauthcookie)
          IN Ok(Join([i \in 1..Len(params) |-> FormatParam(params[i])],
                     AMP))

build_gateway_token(a, comp) ==
  LET r1 == read_args(a, 1, K_authcookie)
      r3 == read_args(a, 3, K_portal)
      r4 == read_args(a, 4, K_user)
      r7 == read_args(a, 7, K_domain)
      r15 == read_args(a, 15, K_preferred_ip)
  IN IF ~r1.ok THEN r1
     ELSE IF ~r3.ok THEN r3
     ELSE IF ~r4.ok THEN r4
     ELSE IF ~r7.ok THEN r7
     ELSE IF ~r15.ok THEN r15
     ELSE LET params ==
                << r1.val, r3.val, r4.val, r7.val, r15.val, <<K_computer, comp>> >>
                \o OptionalParam(a, 2, K_persistent_cookie)
                \o OptionalParam(a, 16, K_portal_userauthcookie)
                \o OptionalParam(a, 17, K_portal_prelogonuserauthcookie)
          IN Ok(Join([i \in 1..Len(params) |-> FormatParam(params[i])],
                     AMP))

----------------------------------------------------------------------------
(* The gateway's login response, as the list of its <argument> texts *)

MaxArgs == 18
MaxValueLen == 5

\* The slots read_args reads, in the order build_gateway_token reads them.
MandatorySlots == <<1, 3, 4, 7, 15>>
MandatoryKeys == <<K_authcookie, K_portal, K_user, K_domain, K_preferred_ip>>
OptionalSlots == <<2, 16, 17>>
OptionalKeys ==
  <<K_persistent_cookie, K_portal_userauthcookie, K_portal_prelogonuserauthcookie>>

\* The response of the unit tests, shortened: "(null)", the auth cookie, the
\* gateway name, the user, a percent-encoded domain, the preferred IP, "x"
\* elsewhere.
FixtureArg(index) ==
  CASE index = 0 -> S_null
    [] index = 1 -> Str(<<"c","k","-","1">>)
    [] index = 3 -> Str(<<"G","P","-","N">>)
    [] index = 4 -> Str(<<"u","@","e",".","c">>)
    [] index = 7 -> Str(<<"%","2","8","d","%","2","9">>)
    [] index = 15 -> Str(<<"1",".","2">>)
    [] OTHER -> Str(<<"x">>)

\* What a gateway puts in an optional slot: the four sentinels, values close
\* to a sentinel, a plain value and values with reserved characters.
OptPool ==
  { <<>>, S_null, S_minus1, S_empty,
    Str(<<"-","1","0">>), Str(<<"E","m","p","t","y">>),
    Str(<<"p","c","-","v">>), Str(<<"a","&","b","=","%","2","f">>) }

ComputerPool == { Str(<<"t","e","s","t","-","h","o","s","t">>), Str(<<"p","c"," ","%","4","1">>) }

EncAlphabet == { PERCENT, Ord("2"), Ord("5"), B_F, B_z }

Values(n) == UNION { [1..k -> EncAlphabet] : k \in 0..n }

ResponseArgs(n, o2, o16, o17) ==
  [i \in 1..n |->
     CASE i - 1 = 2 -> o2
       [] i - 1 = 16 -> o16
       [] i - 1 = 17 -> o17
       [] OTHER -> FixtureArg(i - 1)]

NoResult == Err(<<>>)

\* A response of 0..MaxArgs arguments; nothing built yet.
InitToken ==
  /\ \E n \in 0..MaxArgs : \E o2 \in OptPool, o16 \in OptPool, o17 \in OptPool :
       args = ResponseArgs(n, o2, o16, o17)
  /\ computer \in ComputerPool
  /\ removed = -1
  /\ built = FALSE
  /\ result = NoResult
  /\ IdleRedact
  /\ IdleLogin
  /\ IdlePortal
  /\ IdleWrapper
  /\ IdleLog

\* A response in which one server value fills every slot, and the computer
\* name too: every field of the token is built from it.
InitEncode ==
  /\ \E v \in Values(MaxValueLen) :
       /\ args = [i \in 1..MaxArgs |-> v]
       /\ computer = v
  /\ removed = -1
  /\ built = FALSE
  /\ result = NoResult
  /\ IdleRedact
  /\ IdleLogin
  /\ IdlePortal
  /\ IdleWrapper
  /\ IdleLog

RemoveAt(a, index) == SubSeq(a, 1, index) \o SubSeq(a, index + 2, Len(a))

\* The response arrives with the <argument> element of one mandatory slot
\* left out: the later elements move down by one.
RemoveSlot ==
  /\ ~built
  /\ removed = -1
  /\ \E k \in 1..Len(MandatorySlots) :
       /\ MandatorySlots[k] < Len(args)
       /\ args' = RemoveAt(args, MandatorySlots[k])
       /\ removed' = MandatorySlots[k]
  /\ UNCHANGED <<computer, built, result>>
  /\ UNCHANGED <<redVars, loginVars, portalVars, wrapVars, logVars>>

\* let cookie = build_gateway_token(&root, gp_params.computer())
BuildGatewayToken ==
  /\ ~built
  /\ result' = build_gateway_token(args, computer)
  /\ built' = TRUE
  /\ UNCHANGED <<args, computer, removed>>
  /\ UNCHANGED <<redVars, loginVars, portalVars, wrapVars, logVars>>

NextToken == RemoveSlot \/ BuildGatewayToken

SpecToken == InitToken /\ [][NextToken]_vars

NextEncode == BuildGatewayToken

SpecEncode == InitEncode /\ [][NextEncode]_vars

----------------------------------------------------------------------------
(* Reading a token back: its '&'-separated pieces, each key=value *)

\* the positions of sep in s, with 0 and Len(s) + 1 as the outer bounds
Cuts(s, sep) == {0, Len(s) + 1} \cup { i \in 1..Len(s) : s[i] = sep }

\* str::split(sep), collected
Split(s, sep) ==
  LET cuts == Cuts(s, sep)
      next(p) == CHOOSE q \in cuts : q > p /\ \A r \in cuts : r > p => q <= r
      start[j \in 1..(Cardinality(cuts) - 1)] ==
        IF j = 1 THEN 0 ELSE next(start[j - 1])
  IN [j \in 1..(Cardinality(cuts) - 1) |->
        SubSeq(s, start[j] + 1, next(start[j]) - 1)]

Pieces(token) == Split(token, AMP[1])

\* position of the first '=' of a piece, or Len + 1
EqPos(piece) ==
  IF \E i \in 1..Len(piece) : piece[i] = EQUALS[1]
    THEN CHOOSE i \in 1..Len(piece) :
           piece[i] = EQUALS[1] /\ \A j \in 1..(i - 1) : piece[j] # EQUALS[1]
    ELSE Len(piece) + 1

PieceKey(piece) == SubSeq(piece, 1, EqPos(piece) - 1)
PieceValue(piece) == SubSeq(piece, EqPos(piece) + 1, Len(piece))

\* over the pieces ps of a token
HasKey(ps, key) == \E i \in 1..Len(ps) : PieceKey(ps[i]) = key

ValueOf(ps, key) ==
  PieceValue(ps[CHOOSE i \in 1..Len(ps) : PieceKey(ps[i]) = key])

Sentinels == { <<>>, S_null, S_minus1, S_empty }

\* An optional slot that exists and holds no sentinel (index from 0).
OptionalPresent(a, index) == index < Len(a) /\ a[index + 1] \notin Sentinels

\* The wire form of a field: the text, decoded once when it holds a '%',
\* percent-encoded.
WireValue(v) ==
  encode(IF Contains(v, <<PERCENT>>) /\ utf8_valid(decode_binary(v), 1)
           THEN decode_binary(v) ELSE v)

RECURSIVE SelectPresent(_, _)
SelectPresent(a, k) ==
  IF k > Len(OptionalSlots) THEN <<>>
  ELSE (IF OptionalPresent(a, OptionalSlots[k])
          THEN << OptionalKeys[k] \o EQUALS \o WireValue(a[OptionalSlots[k] + 1]) >>
          ELSE <<>>) \o SelectPresent(a, k + 1)

ErrorNaming(key) == FAILED_TO_READ \o key \o FROM_ARGS

----------------------------------------------------------------------------
(* C1: when indices 1, 3, 4, 7 and 15 all exist, the build succeeds and the
   token is, in this order, authcookie (slot 1), portal (slot 3), user
   (slot 4), domain (slot 7), preferred-ip (slot 15), computer (the local
   computer argument, never a slot), then the optional fields that are
   present, as key=value pieces joined by '&'. *)
C1_TokenOrder ==
  (built /\ Len(args) >= 16) =>
    /\ result.ok
    /\ Pieces(result.val) =
         << K_authcookie \o EQUALS \o WireValue(args[2]),
            K_portal \o EQUALS \o WireValue(args[4]),
            K_user \o EQUALS \o WireValue(args[5]),
            K_domain \o EQUALS \o WireValue(args[8]),
            K_preferred_ip \o EQUALS \o WireValue(args[16]),
            K_computer \o EQUALS \o WireValue(computer) >>
         \o SelectPresent(args, 1)

\* a full response with all three optional fields, built
C1_Witness ==
  /\ built /\ result.ok /\ removed = -1
  /\ Len(args) = 18
  /\ Len(Pieces(result.val)) = 9
  /\ \A i \in 1..18 : args[i] # computer

(* C2 as stated: deleting the element of any one mandatory slot from a
   well-formed response makes the build fail with an error naming that
   field. *)
C2_RemovedSlotNamed ==
  (built /\ removed # -1 /\ Len(args) >= 15) =>
    /\ ~result.ok
    /\ \E k \in 1..Len(MandatorySlots) :
         removed = MandatorySlots[k] /\ result.val = ErrorNaming(MandatoryKeys[k])

\* the first mandatory slot, in reading order, that the list is too short for
FirstAbsent(a) ==
  CHOOSE k \in 1..Len(MandatorySlots) :
    /\ MandatorySlots[k] >= Len(a)
    /\ \A j \in 1..(k - 1) : MandatorySlots[j] < Len(a)

(* C2, amended: the build fails exactly when the list is too short to hold
   every mandatory index; the error then names the first absent mandatory
   field in reading order and no token is returned. Deleting one element
   from a 16-element response therefore always fails, naming preferred-ip;
   deleting one from a longer response does not fail. *)
C2_AbsentSlotFails ==
  built =>
    /\ result.ok <=> Len(args) >= 16
    /\ ~result.ok => result.val = ErrorNaming(MandatoryKeys[FirstAbsent(args)])
    /\ ~result.ok => ~Contains(result.val, EQUALS)
    /\ (removed # -1 /\ Len(args) = 15) =>
         (~result.ok /\ result.val = ErrorNaming(K_preferred_ip))

\* the domain element deleted from a 16-element response: the build failed
C2_Witness ==
  built /\ removed = 7 /\ Len(args) = 15 /\ ~result.ok

(* C3: the token holds persistent-cookie, portal-userauthcookie,
   portal-prelogonuserauthcookie exactly when slot 2, 16, 17 exists and its
   value is none of "", "(null)", "-1", "empty"; the value is then that
   slot's value, and each field depends on its own slot only. *)
C3_OptionalFields ==
  (built /\ result.ok) =>
    LET ps == Pieces(result.val)
    IN \A k \in 1..Len(OptionalSlots) :
         /\ HasKey(ps, OptionalKeys[k]) <=> OptionalPresent(args, OptionalSlots[k])
         /\ OptionalPresent(args, OptionalSlots[k]) =>
              ValueOf(ps, OptionalKeys[k]) = WireValue(args[OptionalSlots[k] + 1])

\* slot 2 and slot 17 present, slot 16 a sentinel
C3_Witness ==
  /\ built /\ result.ok /\ removed = -1 /\ Len(args) = 18
  /\ args[17] = S_minus1
  /\ HasKey(Pieces(result.val), K_persistent_cookie)
  /\ ~HasKey(Pieces(result.val), K_portal_userauthcookie)
  /\ HasKey(Pieces(result.val), K_portal_prelogonuserauthcookie)

----------------------------------------------------------------------------
(* Percent-encoding of the token's values *)

IsHex(b) == from_hex_digit(b) # -1

\* every '%' of v starts an escape %XX, and there is one
PercentEncoded(v) ==
  /\ Contains(v, <<PERCENT>>)
  /\ \A i \in 1..Len(v) :
       v[i] = PERCENT => (i + 2 <= Len(v) /\ IsHex(v[i + 1]) /\ IsHex(v[i + 2]))

(* C4: for a value with a percent character,
   decode(encode(normalize(value))) = normalize(value); and a server value
   that is already percent-encoded is not encoded a second time: the token's
   value, decoded once, is the server value decoded once (%28d%29 stays
   %28d%29, never %2528d%2529). *)
C4_NoDoubleEncoding ==
  (built /\ result.ok) =>
    LET ps == Pieces(result.val)
    IN \A i \in 1..Len(ps) :
         LET v == IF PieceKey(ps[i]) = K_computer THEN computer ELSE args[8]
             t == PieceValue(ps[i])
         IN /\ Contains(v, <<PERCENT>>) =>
                 decode(encode(normalize_token_value(v))) = Ok(normalize_token_value(v))
            /\ PercentEncoded(v) => decode_binary(t) = decode_binary(v)

(* C5: every field's value is the raw value percent-encoded when it holds
   no '%'; when it holds one, it is decoded in one pass (not again) and the
   outcome encoded, the raw value being kept when the decoded bytes are not
   UTF-8. *)
C5_NormalizeOnce ==
  (built /\ result.ok) =>
    LET ps == Pieces(result.val)
    IN /\ Len(ps) >= 6
       /\ \A i \in 1..Len(ps) :
            LET v == IF PieceKey(ps[i]) = K_computer THEN computer ELSE args[8]
                t == PieceValue(ps[i])
            IN /\ ~Contains(v, <<PERCENT>>) => t = encode(v)
               /\ (Contains(v, <<PERCENT>>) /\ utf8_valid(decode_binary(v), 1)) =>
                    t = encode(decode_binary(v))
               /\ (Contains(v, <<PERCENT>>) /\ ~utf8_valid(decode_binary(v), 1)) =>
                    t = encode(v)

\* a value that a second pass would decode further, built into a token
C5_Witness ==
  /\ built /\ result.ok
  /\ Contains(args[8], <<PERCENT>>)
  /\ utf8_valid(decode_binary(args[8]), 1)
  /\ decode_binary(decode_binary(args[8])) # decode_binary(args[8])
  /\ ValueOf(Pieces(result.val), K_domain) = encode(decode_binary(args[8]))

----------------------------------------------------------------------------
(* ffi/mod.rs: redact_pkcs11_pin *)

MaxPieces == 4

MARKER == Str(<<"p","i","n","-","v","a","l","u","e","=">>)
REDACTED == Str(<<"<","r","e","d","a","c","t","e","d",">">>)

\* ch == '&' || ch == ';' || ch == ' ' || ch == '\'' || ch == '"' || ch == ')'
Delimiters == { Ord("&"), Ord(";"), Ord(" "), Ord("'"), Ord("\""), Ord(")") }

IsDelimiter(ch) == ch \in Delimiters

RPAREN == Ord(")")

\* str::find(pat): the 0-based index of the first match, -1 for None
Find(s, pat) ==
  IF Contains(s, pat)
    THEN (CHOOSE i \in 1..(Len(s) + 1) :
            StartsAt(s, i, pat) /\ \A j \in 1..(i - 1) : ~StartsAt(s, j, pat)) - 1
    ELSE -1

\* str::find(closure): the 0-based index of the first delimiter, -1 for None
FindDelimiter(s) ==
  IF \E i \in 1..Len(s) : IsDelimiter(s[i])
    THEN (CHOOSE i \in 1..Len(s) :
            IsDelimiter(s[i]) /\ \A j \in 1..(i - 1) : ~IsDelimiter(s[j])) - 1
    ELSE -1

\* as redact_pkcs11_pin, ')' not ending the value
redact_pkcs11_pin_to_paren(m) ==
  LET start == Find(m, MARKER)
      value_start == start + Len(MARKER)
      tail == SubSeq(m, value_start + 1, Len(m))
      ends == { i \in 1..Len(tail) : IsDelimiter(tail[i]) /\ tail[i] # RPAREN }
      value_end_rel ==
        IF ends = {} THEN Len(tail)
        ELSE (CHOOSE i \in ends : \A j \in ends : i <= j) - 1
      value_end == value_start + value_end_rel
  IN IF start = -1 THEN m
     ELSE SubSeq(m, 1, value_start) \o REDACTED \o SubSeq(m, value_end + 1, Len(m))

redact_pkcs11_pin(m) ==
  LET start == Find(m, MARKER)
      value_start == start + Len(MARKER)
      tail == SubSeq(m, value_start + 1, Len(m))
      value_end_rel ==
        IF FindDelimiter(tail) = -1 THEN Len(tail) ELSE FindDelimiter(tail)
      value_end == value_start + value_end_rel
  IN IF start = -1 THEN m
     ELSE SubSeq(m, 1, value_start) \o REDACTED \o SubSeq(m, value_end + 1, Len(m))

\* What a log line of the native engine is made of: the marker, PIN digits,
\* other text, the six delimiters.
LinePieces ==
  { MARKER, Str(<<"1">>), Str(<<"x">>), Str(<<"&">>), Str(<<";">>), Str(<<" ">>),
    Str(<<"'">>), Str(<<"\"">>), Str(<<")">>) }

LogLines(n) == { Flatten(ps) : ps \in UNION { [1..k -> LinePieces] : k \in 0..n } }

InitRedact ==
  /\ message \in LogLines(MaxPieces)
  /\ redactDone = FALSE
  /\ redactOut = <<>>
  /\ IdleToken
  /\ IdleLogin
  /\ IdlePortal
  /\ IdleWrapper
  /\ IdleLog

\* let message = redact_pkcs11_pin(...)
Redact ==
  /\ ~redactDone
  /\ redactOut' = redact_pkcs11_pin(message)
  /\ redactDone' = TRUE
  /\ UNCHANGED <<message>>
  /\ UNCHANGED <<tokVars, loginVars, portalVars, wrapVars, logVars>>

NextRedact == Redact

SpecRedact == InitRedact /\ [][NextRedact]_vars

(* C7: for a line with the marker pin-value=, the output is the input with
   only the value span replaced by <redacted>: the span starts right after
   the first marker and runs up to, not including, the first of & ; space
   ' " ) or to the end of the line; what is before the span and from the
   delimiter on is unchanged. A line without the marker comes out as it
   went in. *)
C7_RedactFrame ==
  redactDone =>
    IF Contains(message, MARKER)
      THEN \E i \in 0..Len(message) : \E j \in i..Len(message) :
             LET pre == SubSeq(message, 1, i)
                 val == SubSeq(message, i + 1, j)
                 post == SubSeq(message, j + 1, Len(message))
             IN /\ i >= Len(MARKER)
                /\ SubSeq(pre, i - Len(MARKER) + 1, i) = MARKER
                /\ ~Contains(SubSeq(pre, 1, i - 1), MARKER)
                /\ \A k \in 1..Len(val) : ~IsDelimiter(val[k])
                /\ post = <<>> \/ IsDelimiter(post[1])
                /\ redactOut = pre \o REDACTED \o post
      ELSE redactOut = message

\* text, the marker, a PIN, a closing parenthesis and more text
C7_Witness ==
  /\ redactDone
  /\ message = Str(<<"x">>) \o MARKER \o Str(<<"1", ")">>)
  /\ redactOut = Str(<<"x">>) \o MARKER \o REDACTED \o Str(<<")">>)

----------------------------------------------------------------------------
(* login.rs: parse_mfa *)

LF == 10
CR == 13
QUOTE == Ord("\"")
RESP_MSG == Str(<<"r","e","s","p","M","s","g">>)
INPUT_STR == Str(<<"i","n","p","u","t","S","t","r">>)
CHALLENGE == Str(<<"C","h","a","l","l","e","n","g","e">>)

\* str::lines: split at line feeds, no empty last line, a final carriage
\* return of a line dropped
lines(text) ==
  LET raw == Split(text, LF)
      kept == IF raw[Len(raw)] = <<>> THEN SubSeq(raw, 1, Len(raw) - 1) ELSE raw
  IN [i \in 1..Len(kept) |->
        IF kept[i] # <<>> /\ kept[i][Len(kept[i])] = CR
          THEN SubSeq(kept[i], 1, Len(kept[i]) - 1)
          ELSE kept[i]]

\* lines().find(|l| l.contains(needle)): the line's position, 0 for None
find_line(ls, needle) ==
  IF \E i \in 1..Len(ls) : Contains(ls[i], needle)
    THEN CHOOSE i \in 1..Len(ls) :
           Contains(ls[i], needle) /\ \A j \in 1..(i - 1) : ~Contains(ls[j], needle)
    ELSE 0

\* l.split('"').nth(1)
split_quote_nth1(l) ==
  LET parts == Split(l, QUOTE)
  IN IF Len(parts) >= 2 THEN Some(parts[2]) ELSE None

\* find(..).and_then(..)
quoted_of(ls, needle) ==
  LET at == find_line(ls, needle)
  IN IF at = 0 THEN None ELSE split_quote_nth1(ls[at])

parse_mfa(res) ==
  LET ls == lines(res)
      msg == quoted_of(ls, RESP_MSG)
      input_str == quoted_of(ls, INPUT_STR)
  IN IF ~msg.some THEN None
     ELSE IF ~input_str.some THEN None
     ELSE Some(<<msg.val, input_str.val>>)

----------------------------------------------------------------------------
(* The login response as a document: <jnlp>, one <argument> line per
   argument, </jnlp>. Element::parse accepts this shape and nothing else. *)

JNLP_OPEN == Str(<<"<","j","n","l","p",">">>)
JNLP_CLOSE == Str(<<"<","/","j","n","l","p",">">>)
ARG_OPEN == Str(<<"<","a","r","g","u","m","e","n","t",">">>)
ARG_CLOSE == Str(<<"<","/","a","r","g","u","m","e","n","t",">">>)

XmlDoc(a) ==
  Join(<<JNLP_OPEN>> \o [i \in 1..Len(a) |-> ARG_OPEN \o a[i] \o ARG_CLOSE]
         \o <<JNLP_CLOSE>>, <<LF>>)

IsArgLine(l) ==
  /\ Len(l) >= Len(ARG_OPEN) + Len(ARG_CLOSE)
  /\ StartsAt(l, 1, ARG_OPEN)
  /\ StartsAt(l, Len(l) - Len(ARG_CLOSE) + 1, ARG_CLOSE)

\* Element::parse, then descendants("argument") with get_text().unwrap_or_default()
xml_arguments(text) ==
  LET ls == lines(text)
  IN IF /\ Len(ls) >= 2
        /\ ls[1] = JNLP_OPEN
        /\ ls[Len(ls)] = JNLP_CLOSE
        /\ \A i \in 2..(Len(ls) - 1) : IsArgLine(ls[i])
       THEN Ok([i \in 1..(Len(ls) - 2) |->
                  SubSeq(ls[i + 1], Len(ARG_OPEN) + 1, Len(ls[i + 1]) - Len(ARG_CLOSE))])
       ELSE Err(<<>>)

----------------------------------------------------------------------------
(* login.rs: gateway_login *)

MaxCalls == 2
MaxLines == 3

Cookie(token) == [kind |-> "Cookie", a |-> token, b |-> <<>>, err |-> ""]
Mfa(m, i) == [kind |-> "Mfa", a |-> m, b |-> i, err |-> ""]
Error(e, m) == [kind |-> "Err", a |-> m, b |-> <<>>, err |-> e]

\* HashMap::extend and HashMap::insert
Extend(m, e) ==
  [k \in DOMAIN m \cup DOMAIN e |-> IF k \in DOMAIN e THEN e[k] ELSE m[k]]
Insert(m, key, v) == [k \in DOMAIN m \cup {key} |-> IF k = key THEN v ELSE m[k]]

\* utils::normalize_server: a missing scheme becomes https; an empty host is
\* no URL
normalize_server(g) ==
  IF g.host = "" THEN [ok |-> FALSE, scheme |-> "", host |-> ""]
  ELSE [ok |-> TRUE,
        scheme |-> IF g.scheme = "" THEN "https://" ELSE g.scheme,
        host |-> g.host]

\* utils::remove_url_scheme
remove_url_scheme(url) == url.host

\* as login_form, the credential's fields laid over those of GpParams
login_form_cred_wins(c, g, gw) ==
  Insert(Extend(g, c), "server", remove_url_scheme(normalize_server(gw)))

\* let mut params = cred.to_params(); params.extend(extra_params);
\* params.insert("server", &gateway)
login_form(c, g, gw) ==
  Insert(Extend(c, g), "server", remove_url_scheme(normalize_server(gw)))

\* utils::parse_gp_response: the enforcement header whatever the status, an
\* error status, else the body
parse_gp_response(res) ==
  IF res.hip THEN [ok |-> FALSE, reason |-> "HIP_REQUIRED", body |-> <<>>]
  ELSE IF res.status >= 400 THEN [ok |-> FALSE, reason |-> "error", body |-> <<>>]
  ELSE [ok |-> TRUE, reason |-> "", body |-> res.body]

\* as handle_login_response, the document tried before the challenge marker
handle_login_response_xml_first(res, comp) ==
  LET parsed == parse_gp_response(res)
      mfa == parse_mfa(parsed.body)
      root == xml_arguments(parsed.body)
      token == build_gateway_token(root.val, comp)
  IN IF ~parsed.ok THEN Error("gateway login error", <<>>)
     ELSE IF root.ok /\ token.ok THEN Cookie(token.val)
     ELSE IF Contains(parsed.body, CHALLENGE)
       THEN (IF mfa.some THEN Mfa(mfa.val[1], mfa.val[2])
             ELSE Error("failed to parse MFA challenge", <<>>))
     ELSE IF ~root.ok THEN Error("xml", <<>>)
     ELSE Error("token", token.val)

\* gateway_login from parse_gp_response on
handle_login_response(res, comp) ==
  LET parsed == parse_gp_response(res)
      mfa == parse_mfa(parsed.body)
      root == xml_arguments(parsed.body)
      token == build_gateway_token(root.val, comp)
  IN IF ~parsed.ok THEN Error("gateway login error", <<>>)
     ELSE IF Contains(parsed.body, CHALLENGE)
       THEN (IF mfa.some THEN Mfa(mfa.val[1], mfa.val[2])
             ELSE Error("failed to parse MFA challenge", <<>>))
     ELSE IF ~root.ok THEN Error("xml", <<>>)
     ELSE IF token.ok THEN Cookie(token.val)
     ELSE Error("token", token.val)

FormKeys == {"user", "server"}
PartialMaps(keys, vals) == UNION { [ks -> vals] : ks \in SUBSET keys }
CredPool == PartialMaps(FormKeys, {"from-cred"})
ParamsPool == PartialMaps(FormKeys, {"from-gp"})
GatewayPool ==
  { [scheme |-> "https://", host |-> "gw.example"],
    [scheme |-> "http://", host |-> "127.0.0.1"],
    [scheme |-> "", host |-> "gw.example"],
    [scheme |-> "", host |-> ""] }

L_status ==
  Str(<<"r","e","s","p","S","t","a","t","u","s"," ","="," ","\"">>) \o CHALLENGE
    \o Str(<<"\"",";">>)
L_msg1 == RESP_MSG \o Str(<<" ","="," ","\"","m","1","\"",";">>)
L_msg2 == RESP_MSG \o Str(<<" ","="," ","\"","m","2","\"",";">>)
L_msg_bare == RESP_MSG \o Str(<<" ","="," ","m","3",";">>)
L_msg_open == RESP_MSG \o Str(<<" ","="," ","\"","m","4">>)
L_input1 == INPUT_STR \o Str(<<".","v","a","l","u","e"," ","="," ","\"","t","1","\"",";">>)
L_input_bare == INPUT_STR \o Str(<<".","v","a","l","u","e"," ","="," ","t","2",";">>)
L_input_open == INPUT_STR \o Str(<<".","v","a","l","u","e"," ","="," ","\"","t","3">>)

MfaLines ==
  { L_msg1, L_msg2, L_msg_bare, L_msg_open, L_input1, L_input_bare, L_input_open }

\* the status line of a challenge, then up to n more lines
MfaBodies(n) ==
  { Join(<<L_status>> \o ls, <<LF>>) : ls \in UNION { [1..k -> MfaLines] : k \in 0..n } }

PlainValue == Str(<<"p","c","-","v">>)
LoginComputer == Str(<<"t","e","s","t","-","h","o","s","t">>)

XmlBodies ==
  { XmlDoc(ResponseArgs(18, PlainValue, PlainValue, S_empty)),
    XmlDoc(ResponseArgs(16, S_null, <<>>, <<>>)),
    XmlDoc(ResponseArgs(15, PlainValue, <<>>, <<>>)),
    XmlDoc(ResponseArgs(18, CHALLENGE, PlainValue, PlainValue)),
    XmlDoc(<<>>) }

LoginResponses ==
  { [status |-> 200, hip |-> FALSE, body |-> b] :
      b \in MfaBodies(MaxLines) \cup XmlBodies \cup {Str(<<"x">>), <<>>} }
  \cup { [status |-> 403, hip |-> h, body |-> Str(<<"x">>)] : h \in BOOLEAN }
  \cup { [status |-> 500, hip |-> FALSE, body |-> L_status] }

InitLogin ==
  /\ IdleLogin
  /\ IdlePortal
  /\ IdleWrapper
  /\ IdleLog
  /\ IdleToken
  /\ IdleRedact

\* gateway_login up to the send: normalize_server, Client::try_from, the
\* form, the POST
Call ==
  /\ lpc = "idle"
  /\ calls < MaxCalls
  /\ \E gw \in GatewayPool, c \in CredPool, g \in ParamsPool,
        comp \in {LoginComputer}, client_ok \in BOOLEAN :
       /\ lgateway' = gw
       /\ lcred' = c
       /\ lparams' = g
       /\ lcomputer' = comp
       /\ IF ~normalize_server(gw).ok
            THEN /\ outcome' = Error("normalize_server", <<>>)
                 /\ lpc' = "done"
                 /\ request' = NoRequest
                 /\ UNCHANGED posts
                 /\ sent' = 0
            ELSE IF ~client_ok
              THEN /\ outcome' = Error("client", <<>>)
                   /\ lpc' = "done"
                   /\ request' = NoRequest
                   /\ UNCHANGED posts
                   /\ sent' = 0
            ELSE /\ outcome' = NoOutcome
                 /\ lpc' = "sent"
                 /\ request' =
                      [live |-> TRUE,
                       url |-> [scheme |-> normalize_server(gw).scheme,
                                host |-> normalize_server(gw).host,
                                path |-> "/ssl-vpn/login.esp"],
                       form |-> login_form(c, g, gw)]
                 /\ posts' = posts + 1
                 /\ sent' = 1
  /\ calls' = calls + 1
  /\ response' = NoResponse
  /\ UNCHANGED <<tokVars, redVars, portalVars, wrapVars, logVars>>

\* as NetworkError, sending the request again
NetworkErrorResend ==
  /\ lpc = "sent"
  /\ posts' = posts + 1
  /\ sent' = sent + 1
  /\ UNCHANGED <<lpc, lgateway, lcred, lparams, lcomputer, request, response,
                 outcome, calls>>
  /\ UNCHANGED <<tokVars, redVars, portalVars, wrapVars, logVars>>

\* send() fails: the call returns PortalError::NetworkError
NetworkError ==
  /\ lpc = "sent"
  /\ lpc' = "done"
  /\ outcome' = Error("network", <<>>)
  /\ request' = NoRequest
  /\ lcred' = <<>>
  /\ lparams' = <<>>
  /\ UNCHANGED <<lgateway, lcomputer, response, calls, posts, sent>>
  /\ UNCHANGED <<tokVars, redVars, portalVars, wrapVars, logVars>>

\* send() returns the gateway's response; the form is dropped
Respond ==
  /\ lpc = "sent"
  /\ \E r \in LoginResponses : response' = r
  /\ lpc' = "received"
  /\ request' = NoRequest
  /\ lcred' = <<>>
  /\ lparams' = <<>>
  /\ UNCHANGED <<lgateway, lcomputer, outcome, calls, posts, sent>>
  /\ UNCHANGED <<tokVars, redVars, portalVars, wrapVars, logVars>>

\* gateway_login from parse_gp_response to its return
Finish ==
  /\ lpc = "received"
  /\ outcome' = handle_login_response(response, lcomputer)
  /\ lpc' = "done"
  /\ UNCHANGED <<lgateway, lcred, lparams, lcomputer, request, response,
                 calls, posts, sent>>
  /\ UNCHANGED <<tokVars, redVars, portalVars, wrapVars, logVars>>

\* the caller has taken the result; nothing of the call is kept
Return ==
  /\ lpc = "done"
  /\ lpc' = "idle"
  /\ lgateway' = [scheme |-> "", host |-> ""]
  /\ lcred' = <<>>
  /\ lparams' = <<>>
  /\ lcomputer' = <<>>
  /\ response' = NoResponse
  /\ outcome' = NoOutcome
  /\ sent' = 0
  /\ UNCHANGED <<request, calls, posts>>
  /\ UNCHANGED <<tokVars, redVars, portalVars, wrapVars, logVars>>

NextLogin == Call \/ NetworkError \/ Respond \/ Finish \/ Return

SpecLogin == InitLogin /\ [][NextLogin]_vars

----------------------------------------------------------------------------
(* Claims about gateway_login *)

\* the positions of the quote characters of a line
QuotePositions(l) == { k \in 1..Len(l) : l[k] = QUOTE }

\* a line has a quoted substring when an opening quote is followed by a
\* closing one
HasQuoted(l) == Cardinality(QuotePositions(l)) >= 2

\* what is between the first quote of the line and the next one
FirstQuoted(l) ==
  LET open == CHOOSE k \in QuotePositions(l) : \A j \in QuotePositions(l) : k <= j
      close == CHOOSE k \in QuotePositions(l) \ {open} :
                 \A j \in QuotePositions(l) \ {open} : k <= j
  IN SubSeq(l, open + 1, close - 1)

\* the response was classified as a success and its body has the marker
ChallengeAnswered ==
  /\ lpc = "done"
  /\ response.status = 200
  /\ ~response.hip
  /\ Contains(response.body, CHALLENGE)

(* C6: on a challenge body, gateway_login returns Mfa(message, input) only
   when the first line containing respMsg and the first line containing
   inputStr both exist and both hold a quoted substring, and then the two
   parts are the first quoted substring of each line; in every other case
   the call returns an error. *)
C6_MfaAllOrNothing ==
  ChallengeAnswered =>
    LET ls == lines(response.body)
        m == find_line(ls, RESP_MSG)
        i == find_line(ls, INPUT_STR)
    IN IF m # 0 /\ i # 0 /\ HasQuoted(ls[m]) /\ HasQuoted(ls[i])
         THEN outcome = Mfa(FirstQuoted(ls[m]), FirstQuoted(ls[i]))
         ELSE outcome.kind = "Err"

(* C8: a POST is sent only by the step that begins a call, one per call:
   whatever the request comes to, no step of the call sends again, and no
   request outlives the call that sent it. *)
C8_NoAutomaticRetry ==
  /\ [](/\ sent <= 1
        /\ posts <= calls
        /\ request.live => lpc = "sent")
  /\ [][posts' # posts =>
          /\ lpc = "idle"
          /\ calls' = calls + 1
          /\ posts' = posts + 1]_vars

\* a first call was made, and the second one, begun by the caller, has ended
\* on a network error after its one POST
C8_Witness ==
  /\ calls = 2
  /\ posts = 2
  /\ sent = 1
  /\ lpc = "done"
  /\ outcome = Error("network", <<>>)

(* C10: the form of the request in flight has the keys of the credential,
   those of GpParams and server; server is the gateway's host without its
   scheme, whatever the two mappings say; any other key carries the
   GpParams value when GpParams has it, else the credential's. *)
C10_FormOverlay ==
  request.live =>
    /\ DOMAIN request.form = DOMAIN lcred \cup DOMAIN lparams \cup {"server"}
    /\ request.form["server"] = lgateway.host
    /\ \A k \in DOMAIN request.form \ {"server"} :
         request.form[k] = IF k \in DOMAIN lparams THEN lparams[k] ELSE lcred[k]

\* both mappings have user and server, and the gateway was given with a scheme
C10_Witness ==
  /\ request.live
  /\ lgateway = [scheme |-> "https://", host |-> "gw.example"]
  /\ DOMAIN lcred = {"user", "server"}
  /\ DOMAIN lparams = {"user", "server"}
  /\ request.form = [user |-> "from-gp", server |-> "gw.example"]

----------------------------------------------------------------------------
(* portal: retrieve_config, and the HIP policy server of
   tests/saml_redirect_flow.rs. A response body is its root element, or its
   text when it is no document, and the <name, text> pairs of its elements. *)

HIP_OK_COOKIE == "hip-ok-cookie"
HIP_POLICY_SERVER == "hip-policy-server"
OTHER_PORTAL == "portal"

TextBody(t) == [root |-> "", text |-> t, fields |-> {}]
ConfigBody(user_cookie, prelogon_cookie) ==
  [root |-> "policy", text |-> "",
   fields |-> { <<"portal-userauthcookie", user_cookie>>,
                <<"portal-prelogonuserauthcookie", prelogon_cookie>> }]

\* files/portal_config.xml, of which the test reads user_auth_cookie
PORTAL_CONFIG_XML == ConfigBody("xxxxxx", "xxxxxx")

\* AuthCookieCredential::new(username, user_auth_cookie, prelogon_user_auth_cookie)
AuthCookieCredential(username, cookie, prelogon) ==
  [user |-> username, cookie |-> cookie, prelogon |-> prelogon]

\* Credential::to_params for the AuthCookie variant
to_params(cred) ==
  ("user" :> cred.user)
    @@ ("portal-userauthcookie" :> cred.cookie)
    @@ ("portal-prelogonuserauthcookie" :> cred.prelogon)

\* GpParams of the tests, as form fields
ConfigParams == ("clientos" :> "Linux")

\* the form of retrieve_config: the credential overlaid by GpParams
config_form(cred, g) == Extend(to_params(cred), g)

\* as handle_hip_policy_getconfig, the rejection without its header
handle_hip_policy_getconfig_no_header(params) ==
  LET cookie == IF "portal-userauthcookie" \in DOMAIN params
                  THEN params["portal-userauthcookie"] ELSE ""
  IN IF cookie # HIP_OK_COOKIE
       THEN [status |-> 403, hip |-> FALSE,
             body |-> TextBody("HIP report is required by policy")]
       ELSE [status |-> 200, hip |-> FALSE, body |-> PORTAL_CONFIG_XML]

\* params.get("portal-userauthcookie").unwrap_or_default(), then FORBIDDEN
\* with x-private-pan-globalprotect: HIP_REQUIRED, or OK with the config
handle_hip_policy_getconfig(params) ==
  LET cookie == IF "portal-userauthcookie" \in DOMAIN params
                  THEN params["portal-userauthcookie"] ELSE ""
  IN IF cookie # HIP_OK_COOKIE
       THEN [status |-> 403, hip |-> TRUE,
             body |-> TextBody("HIP report is required by policy")]
       ELSE [status |-> 200, hip |-> FALSE, body |-> PORTAL_CONFIG_XML]

PortalConfig(username, user_cookie, prelogon_cookie) ==
  [kind |-> "PortalConfig", err |-> "", username |-> username,
   user_auth_cookie |-> user_cookie, prelogon_user_auth_cookie |-> prelogon_cookie]
PortalError(kind) ==
  [kind |-> "Err", err |-> kind, username |-> "", user_auth_cookie |-> "",
   prelogon_user_auth_cookie |-> ""]

\* the text of the element of that name, empty when there is none
descendant_text(body, name) ==
  IF \E f \in body.fields : f[1] = name
    THEN (CHOOSE f \in body.fields : f[1] = name)[2]
    ELSE ""

\* retrieve_config from the classifier on: the enforcement header, an error
\* status, a body that is no portal config, else the config read by name
handle_config_response(res, cred) ==
  LET parsed == parse_gp_response(res)
  IN IF ~parsed.ok
       THEN PortalError(IF parsed.reason = "HIP_REQUIRED" THEN "HipRequired" ELSE "Other")
     ELSE IF parsed.body.root # "policy" THEN PortalError("ParseError")
     ELSE PortalConfig(cred.user,
                       descendant_text(parsed.body, "portal-userauthcookie"),
                       descendant_text(parsed.body, "portal-prelogonuserauthcookie"))

CredentialPool ==
  { AuthCookieCredential("alice", c, "prelogon-cookie") :
      c \in {"no-hip-cookie", HIP_OK_COOKIE} }

ConfigBodies ==
  { PORTAL_CONFIG_XML,
    ConfigBody("c1", "p1"),
    [root |-> "policy", text |-> "", fields |-> {}],
    [root |-> "html", text |-> "", fields |-> {<<"portal-userauthcookie", "c2">>}],
    TextBody("error") }

ConfigResponses ==
  { [status |-> s, hip |-> h, body |-> b] :
      s \in {200, 403, 500}, h \in BOOLEAN, b \in ConfigBodies }

InitPortal ==
  /\ IdlePortal
  /\ IdleWrapper
  /\ IdleLog
  /\ IdleToken
  /\ IdleRedact
  /\ IdleLogin

\* retrieve_config up to the send
PCall ==
  /\ ppc = "idle"
  /\ pcalls < MaxCalls
  /\ \E server \in {HIP_POLICY_SERVER, OTHER_PORTAL}, cred \in CredentialPool :
       /\ pserver' = server
       /\ pcred' = cred
       /\ prequest' = [live |-> TRUE, path |-> "/global-protect/getconfig.esp",
                       form |-> config_form(cred, ConfigParams)]
  /\ ppc' = "sent"
  /\ pcalls' = pcalls + 1
  /\ pposts' = pposts + 1
  /\ psent' = 1
  /\ presponse' = NoConfigResponse
  /\ poutcome' = NoConfigOutcome
  /\ UNCHANGED pprev
  /\ UNCHANGED <<tokVars, redVars, loginVars, wrapVars, logVars>>

\* send() fails
PNetworkError ==
  /\ ppc = "sent"
  /\ ppc' = "done"
  /\ poutcome' = PortalError("NetworkError")
  /\ prequest' = NoConfigRequest
  /\ UNCHANGED <<pserver, pcred, presponse, pprev, pcalls, pposts, psent>>
  /\ UNCHANGED <<tokVars, redVars, loginVars, wrapVars, logVars>>

\* the portal answers: the HIP policy server by its handler, another portal
\* with any response
PRespond ==
  /\ ppc = "sent"
  /\ IF pserver = HIP_POLICY_SERVER
       THEN presponse' = handle_hip_policy_getconfig(prequest.form)
       ELSE \E r \in ConfigResponses : presponse' = r
  /\ ppc' = "received"
  /\ prequest' = NoConfigRequest
  /\ UNCHANGED <<pserver, pcred, poutcome, pprev, pcalls, pposts, psent>>
  /\ UNCHANGED <<tokVars, redVars, loginVars, wrapVars, logVars>>

\* retrieve_config from the classifier to its return
PFinish ==
  /\ ppc = "received"
  /\ poutcome' = handle_config_response(presponse, pcred)
  /\ ppc' = "done"
  /\ UNCHANGED <<pserver, pcred, prequest, presponse, pprev, pcalls, pposts, psent>>
  /\ UNCHANGED <<tokVars, redVars, loginVars, wrapVars, logVars>>

\* the caller has taken the result; the call leaves nothing behind (pprev is
\* the caller's memory of it, which no call reads)
PReturn ==
  /\ ppc = "done"
  /\ ppc' = "idle"
  /\ pprev' = poutcome
  /\ pserver' = ""
  /\ pcred' = NoCredential
  /\ presponse' = NoConfigResponse
  /\ poutcome' = NoConfigOutcome
  /\ psent' = 0
  /\ UNCHANGED <<prequest, pcalls, pposts>>
  /\ UNCHANGED <<tokVars, redVars, loginVars, wrapVars, logVars>>

NextPortal == PCall \/ PNetworkError \/ PRespond \/ PFinish \/ PReturn

SpecPortal == InitPortal /\ [][NextPortal]_vars

(* C9: a getconfig response with the HIP_REQUIRED header makes
   retrieve_config fail with the HIP-required error whatever its status, and
   the call has sent its one POST only; against the HIP policy server a call
   fails so exactly when its cookie is not the satisfying one, and with the
   satisfying cookie it returns a PortalConfig whose two cookie fields are the
   ones the server sent, whatever the call before returned; the same holds of
   any accepted config response. *)
C9_HipGate ==
  /\ psent <= 1
  /\ pposts <= pcalls
  /\ prequest.live => ppc = "sent"
  /\ (ppc = "done" /\ presponse.hip) => poutcome = PortalError("HipRequired")
  /\ (ppc = "done" /\ pserver = HIP_POLICY_SERVER /\ presponse.status # 0) =>
       IF pcred.cookie = HIP_OK_COOKIE
         THEN poutcome = PortalConfig(pcred.user, "xxxxxx", "xxxxxx")
         ELSE poutcome = PortalError("HipRequired")
  /\ (ppc = "done" /\ poutcome.kind = "PortalConfig") =>
       /\ ~presponse.hip
       /\ \A f \in presponse.body.fields :
            /\ f[1] = "portal-userauthcookie" => poutcome.user_auth_cookie = f[2]
            /\ f[1] = "portal-prelogonuserauthcookie" =>
                 poutcome.prelogon_user_auth_cookie = f[2]

\* the first call failed on the HIP gate, the caller called again with the
\* satisfying cookie, and this call returned the server's config
C9_Witness ==
  /\ ppc = "done"
  /\ pcalls = 2
  /\ pposts = 2
  /\ pserver = HIP_POLICY_SERVER
  /\ pprev = PortalError("HipRequired")
  /\ pcred = AuthCookieCredential("alice", HIP_OK_COOKIE, "prelogon-cookie")
  /\ poutcome = PortalConfig("alice", "xxxxxx", "xxxxxx")

----------------------------------------------------------------------------
(* vpn_utils.rs: resolve_csd_wrapper *)

MaxLocations == 3

\* CSD_WRAPPER_LOCATIONS where neither target_arch nor target_os adds an entry
CSD_WRAPPER_LOCATIONS ==
  << "/usr/libexec/gpclient/hipreport.sh",
     "/usr/lib/openconnect/hipreport.sh",
     "/usr/libexec/openconnect/hipreport.sh" >>

\* the path the tests pass as the override
OVERRIDE_PATH == "/tmp/hip-override"

PathPool == { CSD_WRAPPER_LOCATIONS[i] : i \in 1..Len(CSD_WRAPPER_LOCATIONS) }
              \cup {OVERRIDE_PATH}

\* no file, a directory (its mode has execute bits), a file of mode 0o644, a
\* file of mode 0o755
FileKinds == {"missing", "dir", "file", "exec"}

\* Path::is_executable: metadata() succeeds, is_file() and mode & 0o111 != 0;
\* the empty path has no metadata
is_executable_file(files, path) ==
  /\ path \in DOMAIN files
  /\ files[path] = "exec"

\* locations.iter().find(|path| is_executable_file(path)).map(..)
find_location(files, locs) ==
  IF \E i \in 1..Len(locs) : is_executable_file(files, locs[i])
    THEN SomePath(locs[CHOOSE i \in 1..Len(locs) :
                         /\ is_executable_file(files, locs[i])
                         /\ \A j \in 1..(i - 1) : ~is_executable_file(files, locs[j])])
    ELSE NoPath

\* as resolve_csd_wrapper, an override that exists taken unprobed
resolve_csd_wrapper_any_file(files, ov, locs) ==
  IF ov.some /\ ov.val # "" /\ ov.val \in DOMAIN files /\ files[ov.val] # "missing"
    THEN SomePath(ov.val)
    ELSE find_location(files, locs)

resolve_csd_wrapper(files, ov, locs) ==
  IF ov.some /\ ov.val # "" /\ is_executable_file(files, ov.val)
    THEN SomePath(ov.val)
    ELSE find_location(files, locs)

\* lists of distinct paths, up to n of them
LocationLists(n) ==
  UNION { { l \in [1..k -> PathPool] : \A i, j \in 1..k : i # j => l[i] # l[j] } :
            k \in 0..n }

OverridePool == {NoPath, SomePath("")} \cup { SomePath(p) : p \in PathPool }

InitWrapper ==
  /\ override_path \in OverridePool
  /\ locations \in LocationLists(MaxLocations)
  /\ fs \in [PathPool -> FileKinds]
  /\ resolved = NoPath
  /\ wdone = FALSE
  /\ IdleToken
  /\ IdleRedact
  /\ IdleLogin
  /\ IdlePortal
  /\ IdleLog

ResolveCsdWrapper ==
  /\ ~wdone
  /\ resolved' = resolve_csd_wrapper(fs, override_path, locations)
  /\ wdone' = TRUE
  /\ UNCHANGED <<override_path, locations, fs>>
  /\ UNCHANGED <<tokVars, redVars, loginVars, portalVars, logVars>>

NextWrapper == ResolveCsdWrapper

SpecWrapper == InitWrapper /\ [][NextWrapper]_vars

\* the override is set, not empty, and names an executable file
OverrideUsable ==
  /\ override_path.some
  /\ override_path.val # ""
  /\ fs[override_path.val] = "exec"

\* the positions of the list whose path is an executable file
ExecutableAt == { i \in 1..Len(locations) : fs[locations[i]] = "exec" }

(* C11: the override path is the result exactly when it is set, not empty
   and an executable file; otherwise the result is the first default
   location, in list order, that is an executable file, and None when there
   is none. *)
C11_ResolveCsdWrapper ==
  wdone =>
    /\ OverrideUsable => resolved = SomePath(override_path.val)
    /\ (override_path.some /\ override_path.val # "" /\ ~OverrideUsable) =>
         resolved # SomePath(override_path.val)
    /\ ~OverrideUsable =>
         IF ExecutableAt = {}
           THEN resolved = NoPath
           ELSE \E i \in ExecutableAt :
                  /\ \A j \in ExecutableAt : i <= j
                  /\ resolved = SomePath(locations[i])

\* the override is a file that is not executable and the second default
\* location is the first executable one
C11_Witness ==
  /\ wdone
  /\ override_path = SomePath(OVERRIDE_PATH)
  /\ fs[OVERRIDE_PATH] = "file"
  /\ Len(locations) = 3
  /\ fs[locations[1]] = "dir"
  /\ fs[locations[2]] = "exec"
  /\ fs[locations[3]] = "exec"
  /\ resolved = SomePath(locations[2])

----------------------------------------------------------------------------
(* gateway_login: the order of its steps *)

\* the transport succeeded and the classifier accepted the response
Accepted ==
  /\ response.status = 200
  /\ ~response.hip

(* C12: a returned call of gateway_login gives Cookie only when the
   transport succeeded, the classifier accepted the response, the body has
   no challenge marker, the body is a document and the token holds every
   mandatory field; it gives Mfa only for an accepted body with the marker
   whose MFA parse succeeded; an accepted body with the marker never gives a
   Cookie; and a failure of any step, in this order, is the error the call
   returns. *)
C12_FailClosed ==
  lpc = "done" =>
    LET marked == Contains(response.body, CHALLENGE)
        doc == xml_arguments(response.body)
        mfa == parse_mfa(response.body)
        ps == Pieces(outcome.a)
    IN /\ outcome.kind \in {"Cookie", "Mfa", "Err"}
       /\ outcome.kind = "Cookie" =>
            /\ Accepted
            /\ ~marked
            /\ doc.ok
            /\ Len(doc.val) >= 16
            /\ \A i \in 1..Len(MandatoryKeys) : HasKey(ps, MandatoryKeys[i])
            /\ HasKey(ps, K_computer)
       /\ outcome.kind = "Mfa" => Accepted /\ marked /\ mfa.some
       /\ (Accepted /\ marked) => outcome.kind # "Cookie"
       /\ response.status = 0 =>
            /\ outcome.kind = "Err"
            /\ outcome.err \in {"normalize_server", "client", "network"}
       /\ (response.status # 0 /\ ~Accepted) =>
            outcome = Error("gateway login error", <<>>)
       /\ (Accepted /\ marked /\ ~mfa.some) =>
            outcome = Error("failed to parse MFA challenge", <<>>)
       /\ (Accepted /\ ~marked /\ ~doc.ok) => outcome = Error("xml", <<>>)
       /\ (Accepted /\ ~marked /\ doc.ok /\ Len(doc.val) < 16) =>
            /\ outcome.kind = "Err"
            /\ outcome.err = "token"

\* an accepted document with all 18 arguments whose persistent cookie holds
\* the marker: the call returns the MFA parse error
C12_Witness ==
  /\ lpc = "done"
  /\ Accepted
  /\ response.body = XmlDoc(ResponseArgs(18, CHALLENGE, PlainValue, PlainValue))
  /\ outcome = Error("failed to parse MFA challenge", <<>>)

----------------------------------------------------------------------------
(* ffi/mod.rs: vpn_log *)

INVALID_LOG_MESSAGE ==
  Str(<<"I","n","v","a","l","i","d"," ","l","o","g"," ","m","e","s","s","a","g","e">>)
UNKNOWN_LEVEL_HEAD ==
  Str(<<"U","n","k","n","o","w","n"," ","l","o","g"," ","l","e","v","e","l",":"," ">>)
UNKNOWN_LEVEL_TAIL ==
  Str(<<",", " ","e","n","a","b","l","e"," ","D","E","B","U","G"," ","l","o","g"," ",
        "l","e","v","e","l"," ","t","o"," ","s","e","e"," ","m","o","r","e"," ",
        "d","e","t","a","i","l","s">>)
MINUS == Str(<<"-">>)

\* Display of an i32
RECURSIVE fmt_unsigned(_)
fmt_unsigned(n) ==
  IF n < 10 THEN <<B_0 + n>> ELSE fmt_unsigned(n \div 10) \o <<B_0 + (n % 10)>>
fmt_i32(n) == IF n < 0 THEN MINUS \o fmt_unsigned(0 - n) ELSE fmt_unsigned(n)

\* message.to_str().unwrap_or("Invalid log message")
to_str_or_invalid(raw) == IF utf8_valid(raw, 1) THEN raw ELSE INVALID_LOG_MESSAGE

\* trim_end_matches('\n')
RECURSIVE trim_end_newlines(_)
trim_end_newlines(m) ==
  IF m # <<>> /\ m[Len(m)] = LF THEN trim_end_newlines(SubSeq(m, 1, Len(m) - 1)) ELSE m

Entry(lvl, text) == [level |-> lvl, text |-> text]

\* the body of vpn_log: what it hands to warn!, info!, debug!, trace!
vpn_log(level, raw) ==
  LET m == redact_pkcs11_pin(trim_end_newlines(to_str_or_invalid(raw)))
  IN IF level = 0 THEN <<Entry("warn", m)>>
     ELSE IF level = 1 THEN <<Entry("info", m)>>
     ELSE IF level = 2 THEN <<Entry("debug", m)>>
     ELSE IF level = 3 THEN <<Entry("trace", m)>>
     ELSE << Entry("warn", UNKNOWN_LEVEL_HEAD \o fmt_i32(level) \o UNKNOWN_LEVEL_TAIL),
             Entry("debug", m) >>

\* levels of the native engine, and two it does not have
LevelPool == {-1, 0, 1, 2, 3, 12}

\* what a line is made of here: the marker, a PIN digit, a space, a closing
\* parenthesis, a byte that is not UTF-8
LogPieces == { MARKER, Str(<<"1">>), Str(<<" ">>), Str(<<")">>), <<255>> }

\* a line of up to n pieces, with no, one or two line feeds after it
NativeLines(n) ==
  { Flatten(ps) \o nl :
      ps \in UNION { [1..k -> LogPieces] : k \in 0..n },
      nl \in {<<>>, <<LF>>, <<LF, LF>>} }

InitLog ==
  /\ log_level \in LevelPool
  /\ log_raw \in NativeLines(MaxPieces)
  /\ log_sink = <<>>
  /\ log_done = FALSE
  /\ IdleToken
  /\ IdleRedact
  /\ IdleLogin
  /\ IdlePortal
  /\ IdleWrapper

VpnLog ==
  /\ ~log_done
  /\ log_sink' = vpn_log(log_level, log_raw)
  /\ log_done' = TRUE
  /\ UNCHANGED <<log_level, log_raw>>
  /\ UNCHANGED <<tokVars, redVars, loginVars, portalVars, wrapVars>>

NextLog == VpnLog

SpecLog == InitLog /\ [][NextLog]_vars

\* every marker of the text has <redacted> right after it
EveryMarkerRedacted(text) ==
  \A i \in 1..Len(text) :
    StartsAt(text, i, MARKER) => StartsAt(text, i + Len(MARKER), REDACTED)

(* C13: at every level, the line vpn_log emits for a message is the output
   of the redaction filter on it, and in every text it emits each occurrence
   of pin-value= has <redacted> right after it. *)
C13_NoUnredactedPin ==
  log_done =>
    /\ log_sink # <<>>
    /\ log_sink[Len(log_sink)].text =
         redact_pkcs11_pin(trim_end_newlines(to_str_or_invalid(log_raw)))
    /\ \A k \in 1..Len(log_sink) : EveryMarkerRedacted(log_sink[k].text)

====
